---- MODULE Spec2Model ----
(***************************************************************************)
(* Simulation core of the Snake renderer (Renderer.cpp / Renderer.h):      *)
(* the fixed-timestep loop of render(), the tick advanceSnake() with the   *)
(* bot's move advanceBotSnake()/chooseBotDirection(), the food spawner     *)
(* spawnFood(), resetGame() and the input handlers.                        *)
(*                                                                         *)
(* The Renderer object is one record, `renderer`, whose fields carry the   *)
(* names of the members (without the trailing underscore). Time is counted *)
(* in tenths of a second, so that moveInterval_ = 0.2 is the integer 2.    *)
(***************************************************************************)
EXTENDS Integers, Sequences, FiniteSets, TLC

\* ---------------------------------------------------------------- bounds
\* Small grids, explored exhaustively: gridWidth in 1..MaxW, gridHeight in
\* 1..MaxH, targetFoodCount in 0..MaxFood, MaxTicks ticks after each resetGame.
MaxW == 3
MaxH == 3
MaxFood == 2
MaxTicks == 2
\* One grid that holds resetGame's start cells (gridWidth / 2 + 2 < gridWidth,
\* gridHeight / 2 + 3 < gridHeight), as the shipped 100 x 100 grid does:
\* LayoutW x LayoutH, targetFoodCount in 0..LayoutFood, LayoutTicks ticks after
\* each resetGame.
LayoutW == 5
LayoutH == 7
LayoutFood == 1
LayoutTicks == 1
\* Largest wall-clock delta of one frame, in tenths of a second.
MaxDelta == 4
\* The boards in play explored: grid size and food target.
BoardW == 3
BoardH == 3
BoardFood == 1
\* Nested resetGame/spawnFood calls the stack holds before it overflows.
StackLimit == 3

\* ------------------------------------------------------- program constants
\* double moveInterval_ = 0.2, in tenths of a second.
MoveInterval == 2

VARIABLES
    renderer,   \* the Renderer object's simulation members
    pc,         \* where the main loop is: "idle" | "loop" (inside render's while)
    ticks,      \* advanceSnake calls since the last resetGame (bounds the exploration)
    last,       \* what the last step did, with the states it started from
    frame,      \* the frame being rendered: accumulator after the delta, ticks run
    elapsed     \* time added to the accumulator since the last resetGame

vars == <<renderer, pc, ticks, last, frame, elapsed>>

\* ------------------------------------------------------------- directions
\* enum class Direction, in the order of chooseBotDirection's array.
Directions == <<"Up", "Down", "Left", "Right">>

DirectionSet == {Directions[i] : i \in 1..Len(Directions)}

isOpposite(lhs, rhs) ==
    \/ (lhs = "Up" /\ rhs = "Down")
    \/ (lhs = "Down" /\ rhs = "Up")
    \/ (lhs = "Left" /\ rhs = "Right")
    \/ (lhs = "Right" /\ rhs = "Left")

\* ------------------------------------------------------------------ cells
Cell(cx, cy) == [x |-> cx, y |-> cy]

Min(a, b) == IF a < b THEN a ELSE b

Abs(a) == IF a < 0 THEN -a ELSE a

SeqToSet(s) == {s[i] : i \in 1..Len(s)}

\* vector::pop_back
PopBack(s) == SubSeq(s, 1, Len(s) - 1)

\* erase every element equal to c (the erase loops of advanceSnake)
RECURSIVE EraseAll(_, _)
EraseAll(s, c) ==
    IF s = <<>> THEN <<>>
    ELSE IF Head(s) = c THEN EraseAll(Tail(s), c)
         ELSE <<Head(s)>> \o EraseAll(Tail(s), c)

isCellOccupiedBySnake(cell, snake) ==
    \E i \in 1..Len(snake) : snake[i].x = cell.x /\ snake[i].y = cell.y

\* The wrap of x with its upper test off by one.
WrapXLate(st, nx) ==
    IF st.gridWidth > 0
    THEN IF nx < 0 THEN st.gridWidth - 1
         ELSE IF nx > st.gridWidth THEN 0 ELSE nx
    ELSE nx

\* One step in `direction`, then the wrap of each coordinate.
WrapX(st, nx) ==
    IF st.gridWidth > 0
    THEN IF nx < 0 THEN st.gridWidth - 1
         ELSE IF nx >= st.gridWidth THEN 0 ELSE nx
    ELSE nx

WrapY(st, ny) ==
    IF st.gridHeight > 0
    THEN IF ny < 0 THEN st.gridHeight - 1
         ELSE IF ny >= st.gridHeight THEN 0 ELSE ny
    ELSE ny

StepCell(current, direction) ==
    CASE direction = "Up"    -> Cell(current.x, current.y + 1)
      [] direction = "Down"  -> Cell(current.x, current.y - 1)
      [] direction = "Left"  -> Cell(current.x - 1, current.y)
      [] direction = "Right" -> Cell(current.x + 1, current.y)

computeNextCell(st, current, direction) ==
    LET next == StepCell(current, direction)
    IN  Cell(WrapX(st, next.x), WrapY(st, next.y))

\* ------------------------------------------------------------ food spawner
\* emptyCells without the test against the food already there.
emptyCellsIgnoringFood(st) ==
    {c \in {Cell(cx, cy) : cx \in 0..(st.gridWidth - 1), cy \in 0..(st.gridHeight - 1)} :
        ~(\/ isCellOccupiedBySnake(c, st.snake)
          \/ isCellOccupiedBySnake(c, st.botSnake))}

\* emptyCells without the tests against the two snakes.
emptyCellsIgnoringSnakes(st) ==
    {c \in {Cell(cx, cy) : cx \in 0..(st.gridWidth - 1), cy \in 0..(st.gridHeight - 1)} :
        ~isCellOccupiedBySnake(c, st.food)}

\* The cells spawnFood collects: grid cells on no snake and no food.
emptyCells(st) ==
    {c \in {Cell(cx, cy) : cx \in 0..(st.gridWidth - 1), cy \in 0..(st.gridHeight - 1)} :
        ~(\/ isCellOccupiedBySnake(c, st.snake)
          \/ isCellOccupiedBySnake(c, st.botSnake)
          \/ isCellOccupiedBySnake(c, st.food))}

\* The first n cells of a shuffle of S: every sequence of n distinct cells of S.
RECURSIVE ShufflePrefixes(_, _)
ShufflePrefixes(S, n) ==
    IF n = 0 THEN {<<>>}
    ELSE UNION {{<<c>> \o rest : rest \in ShufflePrefixes(S \ {c}, n - 1)} : c \in S}

\* spawnCount one too large.
SpawnPicksOneMore(st, empty) ==
    ShufflePrefixes(empty, Min(Cardinality(empty), st.targetFoodCount - Len(st.food) + 1))

\* spawnCount one too small.
SpawnPicksOneLess(st, empty) ==
    ShufflePrefixes(empty, Min(Cardinality(empty), st.targetFoodCount - Len(st.food) - 1))

\* The cells spawnFood appends, given the empty cells it found.
SpawnPicks(st, empty) ==
    ShufflePrefixes(empty, Min(Cardinality(empty), st.targetFoodCount - Len(st.food)))

\* resetGame without timeAccumulator_ = 0.0.
ResetClearedKeepsTime(st) ==
    LET startX == st.gridWidth \div 2
        startY == st.gridHeight \div 2
    IN  [st EXCEPT
            !.snake = <<Cell(startX, startY), Cell(startX - 1, startY),
                        Cell(startX - 2, startY)>>,
            !.botSnake = <<Cell(startX, startY + 3), Cell(startX + 1, startY + 3),
                           Cell(startX + 2, startY + 3)>>,
            !.direction = "Right",
            !.queuedDirection = "Right",
            !.botDirection = "Left",
            !.food = <<>>]

\* resetGame up to its call of spawnFood.
ResetCleared(st) ==
    LET startX == st.gridWidth \div 2
        startY == st.gridHeight \div 2
    IN  [st EXCEPT
            !.snake = <<Cell(startX, startY), Cell(startX - 1, startY),
                        Cell(startX - 2, startY)>>,
            !.botSnake = <<Cell(startX, startY + 3), Cell(startX + 1, startY + 3),
                           Cell(startX + 2, startY + 3)>>,
            !.direction = "Right",
            !.queuedDirection = "Right",
            !.botDirection = "Left",
            !.timeAccumulator = 0,
            !.food = <<>>]

\* resetGame and spawnFood call each other; `depth` counts the frames on the
\* stack. Both return the set of states the call can end in (the shuffle is
\* the only nondeterminism); a state with overflow = TRUE is the process
\* killed by the stack overflow of an unbounded recursion.
RECURSIVE resetGame(_, _), spawnFood(_, _)
resetGame(st, depth) ==
    IF depth > StackLimit THEN {[st EXCEPT !.overflow = TRUE]}
    ELSE {IF s.overflow THEN s ELSE [s EXCEPT !.needsModelUpdate = TRUE] :
            s \in spawnFood(ResetCleared(st), depth + 1)}

spawnFood(st, depth) ==
    IF depth > StackLimit THEN {[st EXCEPT !.overflow = TRUE]}
    ELSE IF Len(st.food) >= st.targetFoodCount THEN {st}
    ELSE LET empty == emptyCells(st)
         IN  IF empty = {} THEN resetGame(st, depth + 1)
             ELSE {[st EXCEPT !.food = @ \o picks,
                              !.needsModelUpdate = IF Len(picks) > 0 THEN TRUE ELSE @] :
                      picks \in SpawnPicks(st, empty)}

\* ------------------------------------------------------------------- bot
\* std::numeric_limits<int>::max()
IntMax == 2147483647

\* The candidate filter without the test against the player's cells.
CandidateSurvivesIgnoringPlayer(st, direction) ==
    LET nextCell == computeNextCell(st, st.botSnake[1], direction)
    IN  /\ ~(Len(st.botSnake) > 1 /\ isOpposite(direction, st.botDirection))
        /\ ~isCellOccupiedBySnake(nextCell, st.botSnake)

\* The candidate filter of chooseBotDirection's loop (its three `continue`s).
CandidateSurvives(st, direction) ==
    LET nextCell == computeNextCell(st, st.botSnake[1], direction)
    IN  /\ ~(Len(st.botSnake) > 1 /\ isOpposite(direction, st.botDirection))
        /\ ~isCellOccupiedBySnake(nextCell, st.botSnake)
        /\ ~isCellOccupiedBySnake(nextCell, st.snake)

\* dx + dy of one food cell, each axis shortened by the wrap.
FoodCellDistance(st, nextCell, foodCell) ==
    LET dx0 == Abs(nextCell.x - foodCell.x)
        dy0 == Abs(nextCell.y - foodCell.y)
        dx == IF st.gridWidth > 0 THEN Min(dx0, st.gridWidth - dx0) ELSE dx0
        dy == IF st.gridHeight > 0 THEN Min(dy0, st.gridHeight - dy0) ELSE dy0
    IN  dx + dy

RECURSIVE MinFoodDistance(_, _, _, _)
MinFoodDistance(st, nextCell, i, distance) ==
    IF i > Len(st.food) THEN distance
    ELSE MinFoodDistance(st, nextCell, i + 1,
                         Min(distance, FoodCellDistance(st, nextCell, st.food[i])))

CandidateDistance(st, nextCell) ==
    IF st.food /= <<>> THEN MinFoodDistance(st, nextCell, 1, IntMax) ELSE 0

\* The loop with `distance <= bestDistance`: the last of equal candidates wins.
RECURSIVE ChooseLoopLastWins(_, _, _, _)
ChooseLoopLastWins(st, i, bestDirection, bestDistance) ==
    IF i > Len(Directions) THEN bestDirection
    ELSE LET direction == Directions[i]
             distance == CandidateDistance(st, computeNextCell(st, st.botSnake[1], direction))
         IN  IF CandidateSurvives(st, direction) /\ distance <= bestDistance
             THEN ChooseLoopLastWins(st, i + 1, direction, distance)
             ELSE ChooseLoopLastWins(st, i + 1, bestDirection, bestDistance)

\* The loop over `directions`, from index i on, carrying bestDirection/bestDistance.
RECURSIVE ChooseLoop(_, _, _, _)
ChooseLoop(st, i, bestDirection, bestDistance) ==
    IF i > Len(Directions) THEN bestDirection
    ELSE LET direction == Directions[i]
             distance == CandidateDistance(st, computeNextCell(st, st.botSnake[1], direction))
         IN  IF CandidateSurvives(st, direction) /\ distance < bestDistance
             THEN ChooseLoop(st, i + 1, direction, distance)
             ELSE ChooseLoop(st, i + 1, bestDirection, bestDistance)

chooseBotDirection(st) ==
    IF st.botSnake = <<>> THEN st.botDirection
    ELSE ChooseLoop(st, 1, st.botDirection, IntMax)

\* The loop without the reversal filter, and its result committed untested.
RECURSIVE ChooseLoopReversing(_, _, _, _)
ChooseLoopReversing(st, i, bestDirection, bestDistance) ==
    IF i > Len(Directions) THEN bestDirection
    ELSE LET direction == Directions[i]
             nextCell == computeNextCell(st, st.botSnake[1], direction)
             distance == CandidateDistance(st, nextCell)
         IN  IF /\ ~isCellOccupiedBySnake(nextCell, st.botSnake)
                /\ ~isCellOccupiedBySnake(nextCell, st.snake)
                /\ distance < bestDistance
             THEN ChooseLoopReversing(st, i + 1, direction, distance)
             ELSE ChooseLoopReversing(st, i + 1, bestDirection, bestDistance)

BotCommitReversing(st) == ChooseLoopReversing(st, 1, st.botDirection, IntMax)

\* The direction advanceBotSnake commits before it moves.
BotCommit(st) ==
    IF Len(st.botSnake) <= 1 THEN chooseBotDirection(st)
    ELSE LET desired == chooseBotDirection(st)
         IN  IF ~isOpposite(desired, st.botDirection) THEN desired ELSE st.botDirection

\* advanceBotSnake returning false on a collision without having reset the game.
advanceBotSnakeNoReset(st) ==
    IF st.botSnake = <<>> THEN {[st |-> st, ok |-> TRUE]}
    ELSE LET s1 == [st EXCEPT !.botDirection = BotCommit(st)]
             newHead == computeNextCell(s1, s1.botSnake[1], s1.botDirection)
         IN  IF isCellOccupiedBySnake(newHead, s1.botSnake)
                \/ isCellOccupiedBySnake(newHead, s1.snake)
             THEN {[st |-> s1, ok |-> FALSE]}
             ELSE {[st |-> [s1 EXCEPT !.botSnake = <<newHead>> \o @], ok |-> TRUE]}

\* advanceBotSnake: the states it can end in, each with its return value.
advanceBotSnake(st) ==
    IF st.botSnake = <<>> THEN {[st |-> st, ok |-> TRUE]}
    ELSE LET s1 == [st EXCEPT !.botDirection = BotCommit(st)]
             newHead == computeNextCell(s1, s1.botSnake[1], s1.botDirection)
             hitSelf == isCellOccupiedBySnake(newHead, s1.botSnake)
             hitPlayer == isCellOccupiedBySnake(newHead, s1.snake)
         IN  IF hitSelf \/ hitPlayer
             THEN {[st |-> r, ok |-> FALSE] : r \in resetGame(s1, 1)}
             ELSE {[st |-> [s1 EXCEPT !.botSnake = <<newHead>> \o @], ok |-> TRUE]}

\* ------------------------------------------------------------------ tick
\* The promotion of queuedDirection at the start of advanceSnake.
PromoteDirection(st) ==
    IF ~isOpposite(st.queuedDirection, st.direction) \/ Len(st.snake) <= 1
    THEN [st EXCEPT !.direction = st.queuedDirection]
    ELSE st

\* One result of a tick: the state it ends in, the state handed to the step's
\* outermost spawnFood call (directly, or through resetGame), which branch
\* ended it, and whether advanceSnake itself called spawnFood (line 494).
TickResult(post, mid, outcome, spawnCalled) ==
    [post |-> post, mid |-> mid, outcome |-> outcome, spawnCalled |-> spawnCalled]

\* The player's collision test against the bot without its new head.
PlayerHitsTail(s2, newHead) ==
    \/ isCellOccupiedBySnake(newHead, s2.snake)
    \/ isCellOccupiedBySnake(newHead, Tail(s2.botSnake))

\* The player's collision test against a bot that has already dropped its tail.
PlayerHitsMovedBot(s2, newHead) ==
    \/ isCellOccupiedBySnake(newHead, s2.snake)
    \/ isCellOccupiedBySnake(newHead, PopBack(s2.botSnake))

\* The player's collision test without hitBot.
PlayerHitsSelfOnly(s2, newHead) == isCellOccupiedBySnake(newHead, s2.snake)

\* The player's collision test (lines 447-450): its new head on one of its own
\* cells or on a cell of the bot, which has already inserted its new head.
PlayerHits(s2, newHead) ==
    \/ isCellOccupiedBySnake(newHead, s2.snake)
    \/ isCellOccupiedBySnake(newHead, s2.botSnake)

\* pop_back unless the snake ate (lines 467-469 and 483-485).
DropTailAlways(cells, ate) == PopBack(cells)

\* Two cells popped when the snake did not eat.
DropTailTwice(cells, ate) == IF ate THEN cells ELSE PopBack(PopBack(cells))

DropTail(cells, ate) == IF ate THEN cells ELSE PopBack(cells)

\* The erase loops over food_ (lines 458-465 and 474-481).
EatFoodKeep(food, head) == food

EatFood(food, head) == EraseAll(food, head)

\* The tick returning without having set the dirty flag.
MarkDirtyNever(st) == st

\* needsModelUpdate_ = true, the last statement of advanceSnake (line 497).
MarkDirty(st) == [st EXCEPT !.needsModelUpdate = TRUE]

\* advanceSnake after the bot has moved without a collision (lines 445-497).
PlayerAdvance(s2) ==
    LET newHead == computeNextCell(s2, s2.snake[1], s2.direction)
    IN  IF PlayerHits(s2, newHead)
        THEN {TickResult(r, ResetCleared(s2), "playerCollision", FALSE) : r \in resetGame(s2, 1)}
        ELSE LET playerAteFood == isCellOccupiedBySnake(newHead, s2.food)
                 food1 == EatFood(s2.food, newHead)
                 snake1 == DropTail(<<newHead>> \o s2.snake, playerAteFood)
                 botHead == s2.botSnake[1]
                 botAteFood == isCellOccupiedBySnake(botHead, food1)
                 food2 == EatFood(food1, botHead)
                 bot1 == DropTail(s2.botSnake, botAteFood)
                 s3 == IF s2.botSnake /= <<>>
                       THEN [s2 EXCEPT !.snake = snake1, !.food = food2, !.botSnake = bot1]
                       ELSE [s2 EXCEPT !.snake = snake1, !.food = food1]
             IN  IF s2.botSnake /= <<>> /\ botHead.x = newHead.x /\ botHead.y = newHead.y
                 THEN {TickResult(r, ResetCleared(s3), "headToHead", FALSE) : r \in resetGame(s3, 1)}
                 ELSE IF playerAteFood \/ (s2.botSnake /= <<>> /\ botAteFood)
                 THEN {TickResult(IF r.overflow THEN r ELSE MarkDirty(r),
                                  s3, "moved", TRUE) : r \in spawnFood(s3, 1)}
                 ELSE {TickResult(MarkDirty(s3), s3, "moved", FALSE)}

\* Whether the tick called resetGame: on a collision, or from spawnFood on a
\* saturated board.
WasReset(t) ==
    \/ t.outcome \in {"botCollision", "playerCollision", "headToHead"}
    \/ (t.spawnCalled /\ Len(t.mid.food) < t.mid.targetFoodCount /\ emptyCells(t.mid) = {})

\* advanceSnake: every result the tick can have from state st.
advanceSnake(st) ==
    IF st.snake = <<>> \/ st.botSnake = <<>>
    THEN {TickResult(st, st, "none", FALSE)}
    ELSE LET s1 == PromoteDirection(st)
         IN  UNION {IF b.ok THEN PlayerAdvance(b.st)
                    ELSE {TickResult(b.st, ResetCleared(s1), "botCollision", FALSE)} :
                    b \in advanceBotSnake(s1)}

\* ------------------------------------------------------------------ input
\* queueDirection without the reversal test.
queueDirectionAny(st, direction) == [st EXCEPT !.queuedDirection = direction]

queueDirection(st, direction) ==
    IF ~isOpposite(direction, st.direction) \/ Len(st.snake) <= 1
    THEN [st EXCEPT !.queuedDirection = direction]
    ELSE st

\* ----------------------------------------------------------- the program
\* The members as the constructor leaves them (Renderer.h's initializers),
\* for one configuration of the grid and of the food target.
Constructed(w, h, target) ==
    [gridWidth |-> w, gridHeight |-> h, targetFoodCount |-> target,
     moveInterval |-> MoveInterval,
     snake |-> <<>>, botSnake |-> <<>>, food |-> <<>>,
     direction |-> "Right", queuedDirection |-> "Right", botDirection |-> "Left",
     timeAccumulator |-> 0, needsModelUpdate |-> TRUE, overflow |-> FALSE]

\* What `last` keeps of the state a tick started from: the configuration, the
\* snakes, the food, the directions and the accumulator.
Snapshot(st) ==
    [gridWidth |-> st.gridWidth, gridHeight |-> st.gridHeight,
     targetFoodCount |-> st.targetFoodCount,
     snake |-> st.snake, botSnake |-> st.botSnake, food |-> st.food,
     direction |-> st.direction, queuedDirection |-> st.queuedDirection,
     botDirection |-> st.botDirection, timeAccumulator |-> st.timeAccumulator]

\* Placeholder for the parts of `last` a step does not record.
NoState == Snapshot(Constructed(0, 0, 0))

Last(op, arg, pre, mid, outcome, spawnCalled) ==
    [op |-> op, arg |-> arg, pre |-> pre, mid |-> mid, outcome |-> outcome,
     spawnCalled |-> spawnCalled]

\* The configurations explored: <<gridWidth, gridHeight, targetFoodCount>>.
Configurations ==
    ((1..MaxW) \X (1..MaxH) \X (0..MaxFood))
        \cup ({LayoutW} \X {LayoutH} \X (0..LayoutFood))

\* Ticks explored after a resetGame on the grid of st.
TickBudget(st) ==
    IF st.gridWidth = LayoutW /\ st.gridHeight = LayoutH THEN LayoutTicks ELSE MaxTicks

\* No frame is being rendered.
NoFrame == [acc |-> 0, ticks |-> 0, reset |-> FALSE]

\* createModels: the constructor's resetGame.
Init ==
    \E cfg \in Configurations :
      LET w == cfg[1]
          h == cfg[2]
          target == cfg[3]
      IN
        /\ renderer \in resetGame(Constructed(w, h, target), 1)
        /\ pc = "idle"
        /\ ticks = 0
        /\ last = Last("reset", "create", NoState,
                       Snapshot(ResetCleared(Constructed(w, h, target))), "none", FALSE)
        /\ frame = NoFrame
        /\ elapsed = 0

Running == ~renderer.overflow

\* handleInput, one direction key or swipe: queueDirection(direction).
HandleQueueDirection ==
    /\ Running /\ pc = "idle"
    /\ \E direction \in DirectionSet :
        /\ renderer' = queueDirection(renderer, direction)
        /\ last' = Last("queue", direction, NoState, NoState, "none", FALSE)
    /\ frame' = NoFrame
    /\ UNCHANGED <<pc, ticks, elapsed>>

\* handleInput, AKEYCODE_ENTER / AKEYCODE_SPACE: resetGame(). The state
\* resetGame leaves does not depend on the state it starts from, so the key is
\* explored as the first event after a frame only: pressing it after other
\* events reaches the same states.
HandleResetKey ==
    /\ Running /\ pc = "idle" /\ last.op = "rebuild"
    /\ renderer' \in resetGame(renderer, 1)
    /\ last' = Last("reset", "key", NoState, Snapshot(ResetCleared(renderer)), "none", FALSE)
    /\ ticks' = 0
    /\ frame' = NoFrame
    /\ elapsed' = 0
    /\ UNCHANGED pc

\* What the frame (and its first tick) remembers of the input before it: whether
\* the last event asked for the reverse of the committed direction.
ReversalNote ==
    IF last.op = "queue" /\ isOpposite(last.arg, renderer.direction)
    THEN "reversal" ELSE "none"

\* render(), lines 111-114: the frame's delta is added to the accumulator.
RenderBegin ==
    /\ Running /\ pc = "idle"
    /\ \E delta \in 0..MaxDelta :
        /\ ticks + ((renderer.timeAccumulator + delta) \div MoveInterval)
               <= TickBudget(renderer)
        /\ renderer' = [renderer EXCEPT !.timeAccumulator = @ + delta]
        /\ last' = Last("frame", ReversalNote, NoState, NoState, "none", FALSE)
        /\ frame' = [acc |-> renderer.timeAccumulator + delta, ticks |-> 0,
                     reset |-> FALSE]
        /\ elapsed' = elapsed + delta
    /\ pc' = "loop"
    /\ UNCHANGED ticks

\* The accumulator drained of everything at once.
DrainWhole(st) == [st EXCEPT !.timeAccumulator = 0]

\* timeAccumulator_ -= moveInterval_ (line 117).
DrainInterval(st) == [st EXCEPT !.timeAccumulator = @ - st.moveInterval]

\* render(), lines 116-119: one iteration of the while loop.
RenderTick ==
    /\ Running /\ pc = "loop"
    /\ renderer.timeAccumulator >= renderer.moveInterval
    /\ LET pre == DrainInterval(renderer)
       IN  \E t \in advanceSnake(pre) :
              /\ renderer' = t.post
              /\ last' = Last("tick", IF last.op = "frame" THEN last.arg ELSE "none",
                               Snapshot(pre), Snapshot(t.mid), t.outcome, t.spawnCalled)
              /\ ticks' = IF WasReset(t) THEN 0 ELSE ticks + 1
              /\ frame' = [frame EXCEPT !.ticks = @ + 1, !.reset = @ \/ WasReset(t)]
              /\ elapsed' = IF WasReset(t) THEN 0 ELSE elapsed
    /\ UNCHANGED pc

\* render(), lines 121-125: the loop is left and the models are rebuilt;
\* rebuildModels fails while the textures or the surface size are missing.
RenderEnd ==
    /\ Running /\ pc = "loop"
    /\ renderer.timeAccumulator < renderer.moveInterval
    /\ \E rebuilt \in BOOLEAN :
        /\ renderer' = IF renderer.needsModelUpdate /\ rebuilt
                       THEN [renderer EXCEPT !.needsModelUpdate = FALSE]
                       ELSE renderer
        /\ last' = Last("rebuild", "none", NoState, NoState, "none", FALSE)
    /\ pc' = "idle"
    /\ UNCHANGED <<ticks, frame, elapsed>>

Next ==
    \/ HandleQueueDirection
    \/ HandleResetKey
    \/ RenderBegin
    \/ RenderTick
    \/ RenderEnd

Spec == Init /\ [][Next]_vars

\* ------------------------------------------------- the head-on scenario
\* 10 x 10 grid, player [(5,5),(4,5),(3,5)] committed to Right, bot
\* [(6,5),(7,5),(8,5)] heading Left, with the food set `food`.
ScenarioHeadOnState(food, target) ==
    [ResetCleared(Constructed(10, 10, target)) EXCEPT
        !.snake = <<Cell(5, 5), Cell(4, 5), Cell(3, 5)>>,
        !.botSnake = <<Cell(6, 5), Cell(7, 5), Cell(8, 5)>>,
        !.food = food]

\* The cells food can be on in the scenario, and the two cells the bot can
\* turn to.
ScenarioFreeCells == emptyCells(ScenarioHeadOnState(<<>>, 0))

ScenarioNearCells == {Cell(6, 6), Cell(6, 4)}

\* The placements of food explored: none, one cell anywhere, and both cells
\* the bot can turn to, in either order.
ScenarioHeadOnStates ==
    {ScenarioHeadOnState(<<>>, 0), ScenarioHeadOnState(<<>>, 1)}
        \cup {ScenarioHeadOnState(<<c>>, 1) : c \in ScenarioFreeCells}
        \cup {ScenarioHeadOnState(<<p[1], p[2]>>, 2) :
                p \in {q \in ScenarioNearCells \X ScenarioNearCells : q[1] /= q[2]}}

\* A frame of the scenario with one tick due.
InitHeadOn ==
    \E st \in ScenarioHeadOnStates :
        /\ renderer = [st EXCEPT !.timeAccumulator = st.moveInterval]
        /\ pc = "loop"
        /\ ticks = 0
        /\ last = Last("frame", "none", NoState, NoState, "none", FALSE)
        /\ frame = [acc |-> MoveInterval, ticks |-> 0, reset |-> FALSE]
        /\ elapsed = MoveInterval

NextHeadOn ==
    \/ RenderTick
    \/ RenderEnd

SpecHeadOn == InitHeadOn /\ [][NextHeadOn]_vars

\* ------------------------------------------------------ boards in play
\* A game some ticks after a reset, on a BoardW x BoardH grid: each snake three
\* cells long, every cell one step behind the cell before it, heading the way
\* its head last moved; the snakes apart; the food set at its target, on a
\* cell free of both; a queued direction that queueDirection accepts.
BoardBase(target) == ResetCleared(Constructed(BoardW, BoardH, target))

BoardCells == emptyCellsIgnoringFood([BoardBase(0) EXCEPT !.snake = <<>>, !.botSnake = <<>>])

\* c is the cell computeNextCell reaches from `from` in direction d.
IsStep(from, d, c) == computeNextCell(BoardBase(0), from, d) = c

BoardSnakes ==
    {[cells |-> <<x[1], x[2], x[3]>>, direction |-> x[4]] :
        x \in {y \in BoardCells \X BoardCells \X BoardCells \X DirectionSet :
                  /\ IsStep(y[2], y[4], y[1])
                  /\ y[3] /= y[1] /\ y[3] /= y[2]
                  /\ \E e \in DirectionSet : IsStep(y[3], e, y[2])}}

Board(player, bot, queued, target, food) ==
    [BoardBase(target) EXCEPT
        !.snake = player.cells,
        !.direction = player.direction,
        !.queuedDirection = queued,
        !.botSnake = bot.cells,
        !.botDirection = bot.direction,
        !.food = food,
        !.timeAccumulator = MoveInterval]

\* A frame on a board in play, with one tick due.
InitBoard ==
    \E player \in BoardSnakes, bot \in BoardSnakes, queued \in DirectionSet,
       target \in 0..BoardFood :
        /\ SeqToSet(player.cells) \cap SeqToSet(bot.cells) = {}
        /\ ~isOpposite(queued, player.direction)
        /\ \E food \in spawnFood(Board(player, bot, queued, target, <<>>), 1) :
              renderer = food
        /\ pc = "loop"
        /\ ticks = 0
        /\ last = Last("frame", "none", NoState, NoState, "none", FALSE)
        /\ frame = [acc |-> MoveInterval, ticks |-> 0, reset |-> FALSE]
        /\ elapsed = MoveInterval

SpecBoard == InitBoard /\ [][NextHeadOn]_vars

\* ------------------------------------------- configurations without a grid
\* <<gridWidth, gridHeight, targetFoodCount>> with a dimension of 0: nothing
\* in createModels or resetGame looks at the dimensions before the game runs.
InvalidConfigurations ==
    (({0} \X (0..2)) \cup ((0..2) \X {0})) \X (0..1)

InitInvalid ==
    \E cfg \in InvalidConfigurations :
      LET w == cfg[1][1]
          h == cfg[1][2]
          target == cfg[2]
      IN
        /\ renderer \in resetGame(Constructed(w, h, target), 1)
        /\ pc = "idle"
        /\ ticks = 0
        /\ last = Last("reset", "create", NoState,
                       Snapshot(ResetCleared(Constructed(w, h, target))), "none", FALSE)
        /\ frame = NoFrame
        /\ elapsed = 0

SpecInvalid == InitInvalid /\ [][Next]_vars

\* ======================================================================
\* Properties
\* ======================================================================

\* ------------------------------------------------- reading the last step
GridCells(st) ==
    {Cell(cx, cy) : cx \in 0..(st.gridWidth - 1), cy \in 0..(st.gridHeight - 1)}

Opposite(direction) ==
    CASE direction = "Up" -> "Down"
      [] direction = "Down" -> "Up"
      [] direction = "Left" -> "Right"
      [] direction = "Right" -> "Left"

NoDuplicates(s) == Cardinality(SeqToSet(s)) = Len(s)

\* Grid cells of st on neither snake and on no food.
FreeCells(st) ==
    GridCells(st) \ (SeqToSet(st.snake) \cup SeqToSet(st.botSnake) \cup SeqToSet(st.food))

\* The last step was one call of advanceSnake that returned.
AfterTick == Running /\ last.op = "tick"

\* The direction the player moves in during a tick started in `pre`.
CommittedDirection(pre) ==
    IF isOpposite(pre.queuedDirection, pre.direction) /\ Len(pre.snake) > 1
    THEN pre.direction
    ELSE pre.queuedDirection

\* The two new heads of a tick started in `pre`.
BotNewHead(pre) == computeNextCell(pre, pre.botSnake[1], BotCommit(pre))

PlayerNewHead(pre) == computeNextCell(pre, pre.snake[1], CommittedDirection(pre))

\* The bot's new head is on a cell of either snake.
BotCollides(pre) ==
    BotNewHead(pre) \in SeqToSet(pre.botSnake) \cup SeqToSet(pre.snake)

\* The player's new head is on a cell of either snake, the bot's new head
\* included.
PlayerCollides(pre) ==
    PlayerNewHead(pre) \in
        SeqToSet(pre.snake) \cup SeqToSet(pre.botSnake) \cup {BotNewHead(pre)}

Collides(pre) == BotCollides(pre) \/ PlayerCollides(pre)

PlayerEats(pre) == PlayerNewHead(pre) \in SeqToSet(pre.food)

BotEats(pre) == BotNewHead(pre) \in SeqToSet(pre.food)

\* A snake after its move: the new head, then the old cells, without the old
\* tail unless it ate.
MovedSnake(cells, newHead, ate) ==
    <<newHead>> \o (IF ate THEN cells ELSE SubSeq(cells, 1, Len(cells) - 1))

\* The food left once both heads have eaten.
FoodLeft(pre) ==
    LET Uneaten(c) == c /= PlayerNewHead(pre) /\ c /= BotNewHead(pre)
    IN  SelectSeq(pre.food, Uneaten)

\* The state a tick started in `pre` hands to the spawner when nothing collides.
ExpectedMove(pre) ==
    [pre EXCEPT !.direction = CommittedDirection(pre),
                !.botDirection = BotCommit(pre),
                !.snake = MovedSnake(pre.snake, PlayerNewHead(pre), PlayerEats(pre)),
                !.botSnake = MovedSnake(pre.botSnake, BotNewHead(pre), BotEats(pre)),
                !.food = FoodLeft(pre)]

\* A snake ate and the moved snakes and the food left cover the whole grid.
Saturates(pre) ==
    /\ ~Collides(pre)
    /\ PlayerEats(pre) \/ BotEats(pre)
    /\ Len(FoodLeft(pre)) < pre.targetFoodCount
    /\ FreeCells(ExpectedMove(pre)) = {}

\* `food` is `before` topped up from the cells `free`, towards `target`.
ToppedUp(food, before, free, target) ==
    /\ Len(food) = Len(before) + Min(Cardinality(free), target - Len(before))
    /\ SubSeq(food, 1, Len(before)) = before
    /\ \A i \in (Len(before) + 1)..Len(food) : food[i] \in free
    /\ NoDuplicates(SubSeq(food, Len(before) + 1, Len(food)))

StartSnake(st) ==
    <<Cell(st.gridWidth \div 2, st.gridHeight \div 2),
      Cell(st.gridWidth \div 2 - 1, st.gridHeight \div 2),
      Cell(st.gridWidth \div 2 - 2, st.gridHeight \div 2)>>

StartBot(st) ==
    <<Cell(st.gridWidth \div 2, st.gridHeight \div 2 + 3),
      Cell(st.gridWidth \div 2 + 1, st.gridHeight \div 2 + 3),
      Cell(st.gridWidth \div 2 + 2, st.gridHeight \div 2 + 3)>>

\* Grid cells on neither snake's start cells.
FreeAtStart(st) ==
    GridCells(st) \ (SeqToSet(StartSnake(st)) \cup SeqToSet(StartBot(st)))

\* st is a state resetGame leaves.
IsFreshReset(st) ==
    /\ st.snake = StartSnake(st)
    /\ st.botSnake = StartBot(st)
    /\ st.direction = "Right"
    /\ st.queuedDirection = "Right"
    /\ st.botDirection = "Left"
    /\ st.timeAccumulator = 0
    /\ st.needsModelUpdate
    /\ ToppedUp(st.food, <<>>, FreeAtStart(st), st.targetFoodCount)

\* st is the state of a tick started in `pre` that applied all its mutations.
IsFullyApplied(pre, st) ==
    LET e == ExpectedMove(pre)
    IN  /\ st.snake = e.snake
        /\ st.botSnake = e.botSnake
        /\ st.direction = e.direction
        /\ st.queuedDirection = pre.queuedDirection
        /\ st.botDirection = e.botDirection
        /\ st.timeAccumulator = pre.timeAccumulator
        /\ st.needsModelUpdate
        /\ IF PlayerEats(pre) \/ BotEats(pre)
           THEN ToppedUp(st.food, e.food, FreeCells(e), st.targetFoodCount)
           ELSE st.food = e.food

\* ------------------------------------------------------------------- C1
\* C1 as stated: after every tick, the state is a fresh reset if a new head
\* collided, and otherwise the tick applied all of its mutations.
C1_ResetOnlyOnCollision ==
    AfterTick =>
        IF Collides(last.pre) THEN IsFreshReset(renderer)
        ELSE IsFullyApplied(last.pre, renderer)

\* C1, amended: after every tick the state is either a fresh reset or the
\* fully applied tick, never a mixture; it is the fresh reset exactly when a
\* new head collided or, with no collision, a snake ate and spawnFood found
\* no free cell (the saturation reset).
C1_TickIsAtomic ==
    AfterTick =>
        IF Collides(last.pre) \/ Saturates(last.pre) THEN IsFreshReset(renderer)
        ELSE IsFullyApplied(last.pre, renderer)

\* A tick in which the player, turned by a queued direction, ran into a snake
\* after the bot had already inserted its head.
C1_Witness ==
    /\ AfterTick
    /\ last.outcome = "playerCollision"
    /\ last.pre.queuedDirection /= "Right"
    /\ CommittedDirection(last.pre) = last.pre.queuedDirection

\* The tick called resetGame / returned without calling it.
TickEndedInReset == AfterTick /\ WasReset(last)

TickMoved == AfterTick /\ ~WasReset(last)

\* ------------------------------------------------------------------- C2
\* C2: after every tick that did not end in a reset, each snake is one cell
\* longer than before the tick if its new head landed on a food cell of the
\* food set before the tick, and as long as before otherwise; no snake is
\* ever shorter than one cell.
C2_LengthInvariant ==
    TickMoved =>
        /\ Len(renderer.snake) =
              Len(last.pre.snake) + (IF PlayerEats(last.pre) THEN 1 ELSE 0)
        /\ Len(renderer.botSnake) =
              Len(last.pre.botSnake) + (IF BotEats(last.pre) THEN 1 ELSE 0)
        /\ Len(renderer.snake) >= 1
        /\ Len(renderer.botSnake) >= 1

\* A tick in which the player ate and grew while the bot did not.
C2_Witness ==
    /\ TickMoved
    /\ PlayerEats(last.pre)
    /\ ~BotEats(last.pre)
    /\ Len(renderer.snake) = Len(last.pre.snake) + 1
    /\ Len(renderer.botSnake) = Len(last.pre.botSnake)

\* ------------------------------------------------------------------- C3
\* The scenario of C3: 10 x 10 grid as resetGame leaves it, player
\* [(5,5),(4,5),(3,5)] heading Right, one food cell, at (6,5).
ScenarioGrowthState ==
    [ResetCleared(Constructed(10, 10, 1)) EXCEPT !.food = <<Cell(6, 5)>>]

ScenarioGrowth ==
    \A t \in advanceSnake(ScenarioGrowthState) :
        /\ t.post.snake = <<Cell(6, 5), Cell(5, 5), Cell(4, 5), Cell(3, 5)>>
        /\ Cell(6, 5) \notin SeqToSet(t.mid.food)
        /\ t.spawnCalled
        /\ Len(t.post.food) = 1

\* C3: in a tick that does not reset, each snake becomes its new head followed
\* by its old cells, the old tail dropped exactly when the new head was not on
\* food; a food cell a head landed on is gone from the food set handed to the
\* spawner, which is then called and tops the food set up towards
\* targetFoodCount; the 10 x 10 scenario grows the player to
\* [(6,5),(5,5),(4,5),(3,5)].
C3_MoveAndConsume ==
    /\ TickMoved =>
        /\ renderer.snake =
              MovedSnake(last.pre.snake, PlayerNewHead(last.pre), PlayerEats(last.pre))
        /\ renderer.botSnake =
              MovedSnake(last.pre.botSnake, BotNewHead(last.pre), BotEats(last.pre))
        /\ (PlayerEats(last.pre) \/ BotEats(last.pre)) =>
              ToppedUp(renderer.food, last.mid.food, FreeCells(last.mid),
                       renderer.targetFoodCount)
    /\ (AfterTick /\ last.outcome = "moved") =>
        /\ PlayerEats(last.pre) =>
              PlayerNewHead(last.pre) \notin SeqToSet(last.mid.food) /\ last.spawnCalled
        /\ BotEats(last.pre) =>
              BotNewHead(last.pre) \notin SeqToSet(last.mid.food) /\ last.spawnCalled
    /\ ScenarioGrowth

\* A tick without reset in which the bot ate: it kept its tail, and the cell
\* it ate was replaced by a spawned one.
C3_Witness ==
    /\ TickMoved
    /\ BotEats(last.pre)
    /\ renderer.botSnake = <<BotNewHead(last.pre)>> \o last.pre.botSnake
    /\ last.spawnCalled
    /\ Len(renderer.food) > Len(last.mid.food)

\* ------------------------------------------------------------------- C4
\* C4: the bot chooses and advances first and the player's collision test
\* sees the bot's new head: whenever the bot's advance does not collide and
\* the player's new head is the bot's new head of the same tick, the
\* player's collision test ends the tick in a full reset.
C4_HeadToHeadResets ==
    (/\ AfterTick
     /\ ~BotCollides(last.pre)
     /\ PlayerNewHead(last.pre) = BotNewHead(last.pre)) =>
        /\ last.outcome = "playerCollision"
        /\ IsFreshReset(renderer)

\* A tick in which both new heads were the same cell.
C4_Witness ==
    /\ AfterTick
    /\ ~BotCollides(last.pre)
    /\ PlayerNewHead(last.pre) = BotNewHead(last.pre)
    /\ PlayerNewHead(last.pre) \notin
          SeqToSet(last.pre.snake) \cup SeqToSet(last.pre.botSnake)

\* ------------------------------------------------------------------- C5
\* C5: for a player snake longer than one cell, a tick that does not reset
\* never commits the opposite of the direction committed before it, whatever
\* was queued; and a queueDirection call with the opposite of the committed
\* direction leaves queuedDirection as it was.
C5_AntiReversal ==
    /\ [](TickMoved /\ Len(last.pre.snake) > 1
            => ~isOpposite(renderer.direction, last.pre.direction))
    /\ [][(/\ last'.op = "queue"
           /\ Len(renderer.snake) > 1
           /\ isOpposite(last'.arg, renderer.direction))
            => renderer'.queuedDirection = renderer.queuedDirection]_vars

\* The reverse of the committed direction was requested and the tick that
\* followed did not reset: the player kept its direction.
C5_Witness ==
    /\ TickMoved
    /\ last.arg = "reversal"
    /\ Len(last.pre.snake) > 1
    /\ renderer.direction = last.pre.direction

\* ------------------------------------------------------------------- C6
\* The cell computeNextCell returns stays on the grid, keeps the coordinate it
\* does not move along, and moves the other one by one modulo the dimension.
WrapsAround(st, c, direction) ==
    LET n == computeNextCell(st, c, direction)
    IN  /\ n \in GridCells(st)
        /\ direction = "Right" => n.y = c.y /\ n.x = (c.x + 1) % st.gridWidth
        /\ direction = "Left" => n.y = c.y /\ n.x = (c.x - 1) % st.gridWidth
        /\ direction = "Up" => n.x = c.x /\ n.y = (c.y + 1) % st.gridHeight
        /\ direction = "Down" => n.x = c.x /\ n.y = (c.y - 1) % st.gridHeight

\* The dimension `direction` moves along.
DimensionAlong(st, direction) ==
    IF direction \in {"Left", "Right"} THEN st.gridWidth ELSE st.gridHeight

\* The result differs from c in exactly one coordinate.
MovesOneCoordinate(st, c, direction) ==
    LET n == computeNextCell(st, c, direction)
    IN  (n.x /= c.x /\ n.y = c.y) \/ (n.x = c.x /\ n.y /= c.y)

\* C6 as stated: for every grid cell and direction the result is a grid cell
\* that differs from the input in exactly one coordinate, by one modulo the
\* dimension.
C6_WrapMovesOneCoordinate ==
    \A c \in GridCells(renderer), direction \in DirectionSet :
        WrapsAround(renderer, c, direction) /\ MovesOneCoordinate(renderer, c, direction)

\* C6, amended: for every grid cell and direction the result is a grid cell
\* whose coordinate along the direction is the input's plus or minus one
\* modulo the dimension and whose other coordinate is the input's; it
\* differs from the input in exactly one coordinate when that dimension is at
\* least 2, and is the input cell itself when the dimension is 1.
C6_WrapInvariant ==
    \A c \in GridCells(renderer), direction \in DirectionSet :
        /\ WrapsAround(renderer, c, direction)
        /\ IF DimensionAlong(renderer, direction) >= 2
           THEN MovesOneCoordinate(renderer, c, direction)
           ELSE computeNextCell(renderer, c, direction) = c

\* A tick that moved the player's head from the last column to column 0.
C6_Witness ==
    /\ TickMoved
    /\ renderer.gridWidth >= 2
    /\ CommittedDirection(last.pre) = "Right"
    /\ last.pre.snake[1].x = renderer.gridWidth - 1
    /\ renderer.snake[1] = Cell(0, last.pre.snake[1].y)

\* ------------------------------------------------------------------- C7
\* C7: right after every resetGame that returns (the constructor's, a reset
\* key's, a collision's, a saturated spawnFood's) the snakes are on their
\* start cells, direction and queuedDirection are Right, the bot's direction
\* is Left, the food set holds min(targetFoodCount, free cells) cells, the
\* accumulator is 0 and the dirty flag is set.
C7_ResetCompleteness ==
    (Running /\ (last.op = "reset" \/ TickEndedInReset)) => IsFreshReset(renderer)

\* A reset by key on a grid with fewer free cells than targetFoodCount.
C7_Witness ==
    /\ Running
    /\ last.op = "reset"
    /\ last.arg = "key"
    /\ IsFreshReset(renderer)
    /\ 0 < Len(renderer.food)
    /\ Len(renderer.food) = Cardinality(FreeAtStart(renderer))
    /\ Len(renderer.food) < renderer.targetFoodCount

\* ------------------------------------------------------------------- C8
\* C8: a spawnFood call that finds no free cell resets the game and returns,
\* on every positive grid size: the spawnFood/resetGame recursion never
\* overflows the stack, and a saturated tick leaves a fresh reset state.
C8_SaturationFallbackTerminates ==
    /\ ~renderer.overflow
    /\ (AfterTick /\ Saturates(last.pre)) => IsFreshReset(renderer)

\* ------------------------------------------------------------------- C9
\* The state handed to the spawnFood call whose result the last step kept: for
\* a tick whose own call found the board saturated, the call made by the
\* resetGame that followed.
SpawnInput ==
    IF last.op = "tick" /\ last.spawnCalled /\ WasReset(last)
    THEN ResetCleared(last.mid)
    ELSE last.mid

\* The last step called spawnFood (directly or through resetGame).
SpawnCalled ==
    /\ Running
    /\ \/ last.op = "reset"
       \/ last.op = "tick" /\ (last.spawnCalled \/ WasReset(last))

\* C9: a spawnFood call with food.size() >= targetFoodCount changes nothing;
\* otherwise, with at least one candidate, it appends exactly
\* min(candidates, targetFoodCount - food.size()) cells, each a grid cell on
\* no snake and no food before the call, pairwise distinct, and leaves the
\* food already there and both snakes as they were, with the dirty flag set.
C9_SpawnPolicy ==
    SpawnCalled =>
        IF Len(SpawnInput.food) >= SpawnInput.targetFoodCount
        THEN /\ renderer.food = SpawnInput.food
             /\ renderer.snake = SpawnInput.snake
             /\ renderer.botSnake = SpawnInput.botSnake
        ELSE FreeCells(SpawnInput) /= {} =>
             /\ ToppedUp(renderer.food, SpawnInput.food, FreeCells(SpawnInput),
                         SpawnInput.targetFoodCount)
             /\ renderer.snake = SpawnInput.snake
             /\ renderer.botSnake = SpawnInput.botSnake
             /\ renderer.needsModelUpdate

\* A tick whose spawnFood call added a cell to a food set that was not empty.
C9_Witness ==
    /\ TickMoved
    /\ last.spawnCalled
    /\ Len(last.mid.food) >= 1
    /\ Len(renderer.food) = Len(last.mid.food) + 1
    /\ renderer.food[Len(renderer.food)] \in FreeCells(last.mid)

\* ------------------------------------------------------------------ C10
\* C10: in every reachable state the food set holds no cell twice and at most
\* targetFoodCount cells.
C10_FoodSetInvariant ==
    /\ NoDuplicates(renderer.food)
    /\ Len(renderer.food) <= renderer.targetFoodCount

\* The food set at its bound of two cells after a tick that ate and respawned.
C10_Witness ==
    /\ TickMoved
    /\ last.spawnCalled
    /\ renderer.targetFoodCount = 2
    /\ Len(renderer.food) = 2

\* ------------------------------------------------------------------ C11
\* C11: at the end of every tick and after every reset, the food set holds
\* targetFoodCount cells whenever a grid cell is on no snake and no food (so a
\* food set below its target is topped up by a tick in which no snake eats).
\* A food set below its target means a board without a free cell, so the tick
\* that follows eats (and calls the spawner) or resets.
C11_TargetFoodMaintained ==
    /\ (/\ Running
        /\ last.op \in {"tick", "reset"}
        /\ FreeCells(renderer) /= {}) =>
           Len(renderer.food) = renderer.targetFoodCount
    /\ (AfterTick /\ Len(last.pre.food) < last.pre.targetFoodCount) =>
           \/ WasReset(last)
           \/ (PlayerEats(last.pre) \/ BotEats(last.pre)) /\ last.spawnCalled

\* A tick that ate, after which the spawner brought the food set back to its
\* target while free cells remain.
C11_Witness ==
    /\ TickMoved
    /\ last.spawnCalled
    /\ renderer.targetFoodCount >= 1
    /\ Len(last.mid.food) < renderer.targetFoodCount
    /\ Len(renderer.food) = renderer.targetFoodCount
    /\ FreeCells(renderer) /= {}

\* A tick started with the food set below its target.
C11_BelowTargetTick ==
    /\ AfterTick
    /\ Len(last.pre.food) < last.pre.targetFoodCount

\* ------------------------------------------------------------------ C12
\* The candidate directions of the bot in st that pass the reversal filter and
\* the occupancy filter.
Survivors(st) ==
    {d \in DirectionSet :
        /\ ~(Len(st.botSnake) > 1 /\ d = Opposite(st.botDirection))
        /\ computeNextCell(st, st.botSnake[1], d)
              \notin SeqToSet(st.botSnake) \cup SeqToSet(st.snake)}

\* min(|d|, dimension - |d|) on each axis, summed.
ToroidalDistance(st, a, b) ==
    LET adx == IF a.x >= b.x THEN a.x - b.x ELSE b.x - a.x
        ady == IF a.y >= b.y THEN a.y - b.y ELSE b.y - a.y
        wdx == IF adx <= st.gridWidth - adx THEN adx ELSE st.gridWidth - adx
        wdy == IF ady <= st.gridHeight - ady THEN ady ELSE st.gridHeight - ady
    IN  wdx + wdy

\* The smallest toroidal distance from the cell the bot would move to in
\* direction d to any food cell; 0 without food.
NearestFood(st, d) ==
    LET cell == computeNextCell(st, st.botSnake[1], d)
        ds == {ToroidalDistance(st, cell, st.food[i]) : i \in 1..Len(st.food)}
    IN  IF ds = {} THEN 0 ELSE CHOOSE m \in ds : \A k \in ds : m <= k

\* The position of d in the order Up, Down, Left, Right.
Rank(d) == CHOOSE i \in 1..4 : <<"Up", "Down", "Left", "Right">>[i] = d

\* d is the greedy choice: a survivor at the minimum distance, and the
\* earliest such in the order Up, Down, Left, Right.
IsGreedyChoice(st, d) ==
    /\ d \in Survivors(st)
    /\ \A e \in Survivors(st) :
          \/ NearestFood(st, d) < NearestFood(st, e)
          \/ NearestFood(st, d) = NearestFood(st, e) /\ Rank(d) <= Rank(e)

\* C12: in every state in which some candidate direction of the bot survives
\* the reversal and occupancy filters, chooseBotDirection returns the
\* surviving candidate with the smallest toroidal Manhattan distance to the
\* nearest food cell, the earliest in the order Up, Down, Left, Right among
\* equals; without food, the earliest surviving candidate.
C12_BotGreedyChoice ==
    (Running /\ renderer.botSnake /= <<>> /\ Survivors(renderer) /= {}) =>
        IsGreedyChoice(renderer, chooseBotDirection(renderer))

\* A tick in which two surviving candidates were equally near to food and the
\* bot took the earlier one, which was not the direction it had.
C12_Witness ==
    /\ TickMoved
    /\ last.pre.food /= <<>>
    /\ renderer.botDirection /= last.pre.botDirection
    /\ IsGreedyChoice(last.pre, renderer.botDirection)
    /\ \E e \in Survivors(last.pre) :
          /\ e /= renderer.botDirection
          /\ NearestFood(last.pre, e) = NearestFood(last.pre, renderer.botDirection)

\* ------------------------------------------------------------------ C13
\* The last step ended a frame (the tick loop was left).
FrameEnded == Running /\ last.op = "rebuild"

\* C13 as stated: in every frame exactly floor(accumulator / moveInterval)
\* ticks are executed, the accumulator being the one the frame's delta was
\* added to.
C13_TicksPerFrame ==
    FrameEnded => frame.ticks = frame.acc \div renderer.moveInterval

\* C13, amended: a frame in which no tick resets the game executes exactly
\* floor(accumulator / moveInterval) ticks, each subtracting one moveInterval,
\* and leaves the remainder; a tick that resets the game zeroes the
\* accumulator, so it is the frame's last tick and the whole intervals left
\* are dropped. Between two resets the number of ticks executed is
\* floor(time added since the reset / moveInterval), however that time was
\* split into frames.
C13_FixedTimestep ==
    /\ (FrameEnded /\ ~frame.reset) =>
          /\ frame.ticks = frame.acc \div renderer.moveInterval
          /\ renderer.timeAccumulator = frame.acc % renderer.moveInterval
    /\ (FrameEnded /\ frame.reset) =>
          /\ 1 <= frame.ticks
          /\ frame.ticks <= frame.acc \div renderer.moveInterval
          /\ renderer.timeAccumulator = 0
    /\ (Running /\ pc = "idle") =>
          /\ ticks = elapsed \div renderer.moveInterval
          /\ renderer.timeAccumulator = elapsed % renderer.moveInterval

\* A frame that caught up two ticks, the second one of them paid for in part
\* by time left over from an earlier frame.
C13_Witness ==
    /\ FrameEnded
    /\ ~frame.reset
    /\ frame.ticks = 2
    /\ frame.acc = 2 * renderer.moveInterval + 1
    /\ renderer.timeAccumulator = 1

\* ------------------------------------------------------------------ C14
\* C14: with gridWidth > 0 and gridHeight > 0, every cell of the player
\* snake, of the bot snake and of the food set is a grid cell, in every
\* reachable state (directly after resetGame included).
C14_CellRange ==
    (Running /\ renderer.gridWidth > 0 /\ renderer.gridHeight > 0) =>
        SeqToSet(renderer.snake) \cup SeqToSet(renderer.botSnake)
            \cup SeqToSet(renderer.food) \subseteq GridCells(renderer)

\* ------------------------------------------------------------------ C15
\* No snake holds a cell twice and the two snakes share no cell.
SnakesIntact(st) ==
    /\ NoDuplicates(st.snake)
    /\ NoDuplicates(st.botSnake)
    /\ SeqToSet(st.snake) \cap SeqToSet(st.botSnake) = {}

\* C15: in every state between ticks no snake contains a cell twice and the
\* player snake and the bot snake share no cell: the start positions of a
\* reset do not overlap, and every tick that does not reset keeps it so.
C15_SnakeIntegrity ==
    /\ Running => SnakesIntact(renderer)
    /\ (Running /\ (last.op = "reset" \/ TickEndedInReset)) =>
          SeqToSet(StartSnake(renderer)) \cap SeqToSet(StartBot(renderer)) = {}
    /\ TickMoved => (SnakesIntact(last.pre) => SnakesIntact(renderer))

\* A tick without reset in which the player moved onto a cell next to the
\* bot's body, both snakes staying intact.
C15_Witness ==
    /\ TickMoved
    /\ SnakesIntact(renderer)
    /\ renderer.snake /= last.pre.snake
    /\ renderer.botSnake /= last.pre.botSnake
    /\ \E c \in SeqToSet(renderer.botSnake) :
          Abs(c.x - renderer.snake[1].x) + Abs(c.y - renderer.snake[1].y) = 1

\* ------------------------------------------------------------------ C16
\* The player's new head is the cell the bot's head is on before the tick.
HeadOn(pre) == PlayerNewHead(pre) = pre.botSnake[1]

\* The tick started from the scenario of C16.
FromScenario(pre) ==
    /\ pre.gridWidth = 10 /\ pre.gridHeight = 10
    /\ pre.snake = <<Cell(5, 5), Cell(4, 5), Cell(3, 5)>>
    /\ pre.botSnake = <<Cell(6, 5), Cell(7, 5), Cell(8, 5)>>
    /\ pre.direction = "Right" /\ pre.queuedDirection = "Right"
    /\ pre.botDirection = "Left"

\* C16 (under SpecHeadOn): on the 10 x 10 grid with player [(5,5),(4,5),(3,5)]
\* committed to Right and bot [(6,5),(7,5),(8,5)] heading Left, one tick ends
\* in a full reset for every placement of food: after it both snakes are at
\* their start cells with length 3.
C16_HeadOnScenario ==
    (AfterTick /\ FromScenario(last.pre)) =>
        /\ HeadOn(last.pre)
        /\ WasReset(last)
        /\ last.outcome \in {"botCollision", "playerCollision", "headToHead"}
        /\ IsFreshReset(renderer)
        /\ Len(renderer.snake) = 3
        /\ Len(renderer.botSnake) = 3

\* The tick of the scenario with food on both cells the bot can turn to: the
\* bot turned aside and the player ran into the cell its head had left.
C16_Witness ==
    /\ AfterTick
    /\ FromScenario(last.pre)
    /\ Len(last.pre.food) = 2
    /\ last.outcome = "playerCollision"
    /\ renderer.snake = <<Cell(5, 5), Cell(4, 5), Cell(3, 5)>>
    /\ renderer.botSnake = <<Cell(5, 8), Cell(6, 8), Cell(7, 8)>>

\* ------------------------------------------------------------------ C17
\* A configuration the simulation must not start with.
BadConfiguration(st) ==
    \/ st.gridWidth <= 0
    \/ st.gridHeight <= 0
    \/ st.moveInterval < 0

\* C17 (under SpecInvalid): a simulation configured with gridWidth <= 0,
\* gridHeight <= 0 or a negative move interval is stopped at startup, before
\* any tick runs.
C17_ConfigurationErrorsFailLoudly ==
    BadConfiguration(renderer) => last.op /= "tick"

\* ------------------------------------------------------------------ C18
\* The reference rule: a new head on a pre-tick cell of either snake, or both
\* new heads on one cell.
CollidesOnPreTickCells(pre) ==
    LET before == SeqToSet(pre.snake) \cup SeqToSet(pre.botSnake)
    IN  \/ BotNewHead(pre) \in before
        \/ PlayerNewHead(pre) \in before
        \/ PlayerNewHead(pre) = BotNewHead(pre)

\* C18: a tick ends in a collision reset exactly when the bot's new head is on
\* a pre-tick cell of the bot or of the player, or the player's new head is on
\* a pre-tick cell of the player or of the bot, or the two new heads are one
\* cell: the sequential code (bot head inserted, bot tail not yet removed when
\* the player is tested) decides as the rule on pre-tick positions does.
C18_CollisionRuleEquivalence ==
    AfterTick =>
        (last.outcome \in {"botCollision", "playerCollision", "headToHead"}
            <=> CollidesOnPreTickCells(last.pre))

\* A tick in which the player ran into the cell of the bot's tail, which the
\* bot, not having eaten, was about to leave.
C18_Witness ==
    /\ AfterTick
    /\ last.outcome = "playerCollision"
    /\ ~BotEats(last.pre)
    /\ PlayerNewHead(last.pre) = last.pre.botSnake[Len(last.pre.botSnake)]
    /\ PlayerNewHead(last.pre) \notin SeqToSet(last.pre.snake)
    /\ PlayerNewHead(last.pre) /= BotNewHead(last.pre)

\* ------------------------------------------------------------------ C19
\* The cells of both snakes.
SnakeCells(st) == SeqToSet(st.snake) \cup SeqToSet(st.botSnake)

\* The directions in which the bot's head in st has a neighbouring cell on no
\* snake, the reverse of its direction left out.
OpenDirections(st) ==
    {d \in DirectionSet :
        /\ d /= Opposite(st.botDirection)
        /\ computeNextCell(st, st.botSnake[1], d) \notin SnakeCells(st)}

\* C19: in every tick, if a non-reverse neighbouring cell of the bot's head is
\* on no snake, the bot moves to a cell that is on no snake before the tick and
\* its advance does not collide; if there is none, chooseBotDirection returns
\* the bot's direction unchanged and the bot's advance collides and resets the
\* game. The bot's advance resets exactly when every non-reverse neighbouring
\* cell of its head is on a snake.
C19_BotOneStepSafety ==
    (AfterTick /\ Len(last.pre.botSnake) > 1) =>
        /\ OpenDirections(last.pre) /= {} =>
              /\ last.outcome /= "botCollision"
              /\ chooseBotDirection(last.pre) \in OpenDirections(last.pre)
              /\ BotNewHead(last.pre) \notin SnakeCells(last.pre)
        /\ OpenDirections(last.pre) = {} =>
              /\ chooseBotDirection(last.pre) = last.pre.botDirection
              /\ BotNewHead(last.pre) \in SnakeCells(last.pre)
              /\ last.outcome = "botCollision"
              /\ IsFreshReset(renderer)
        /\ last.outcome = "botCollision" <=> OpenDirections(last.pre) = {}

\* A tick in which the bot, with a snake on all three cells it could turn to,
\* kept its direction, collided and reset the game.
C19_Witness ==
    /\ AfterTick
    /\ OpenDirections(last.pre) = {}
    /\ last.outcome = "botCollision"
    /\ IsFreshReset(renderer)

\* ------------------------------------------------------------------ C20
\* C20: for a bot snake longer than one cell, the bot's direction after a tick
\* that does not reset is never the opposite of its direction before the tick.
C20_BotAntiReversal ==
    (TickMoved /\ Len(last.pre.botSnake) > 1) =>
        ~isOpposite(renderer.botDirection, last.pre.botDirection)

\* A tick in which the cell behind the bot's head was on no snake and nearer
\* to food than the cell the bot moved to, and the bot did not turn back.
C20_Witness ==
    /\ TickMoved
    /\ Len(last.pre.botSnake) > 1
    /\ last.pre.food /= <<>>
    /\ computeNextCell(last.pre, last.pre.botSnake[1], Opposite(last.pre.botDirection))
          \notin SnakeCells(last.pre)
    /\ NearestFood(last.pre, Opposite(last.pre.botDirection))
          < NearestFood(last.pre, renderer.botDirection)
    /\ renderer.botDirection /= Opposite(last.pre.botDirection)

\* ------------------------------------------------------------------ C21
\* A step changed a snake's cell sequence or the food set.
SimulationChanged ==
    \/ renderer'.snake /= renderer.snake
    \/ renderer'.botSnake /= renderer.botSnake
    \/ renderer'.food /= renderer.food

\* A step cleared the dirty flag.
FlagCleared == renderer.needsModelUpdate /\ ~renderer'.needsModelUpdate

\* C21: the dirty flag is set after every tick and after every resetGame; no
\* step that changes a snake's cells or the food set (a spawn included) ends
\* with the flag clear; and the flag is cleared only by the rebuild at the end
\* of a frame, once the accumulator holds less than one interval.
C21_DirtyFlag ==
    /\ []((Running /\ last.op \in {"tick", "reset"}) => renderer.needsModelUpdate)
    /\ [][~renderer'.overflow =>
            /\ SimulationChanged => renderer'.needsModelUpdate
            /\ FlagCleared =>
                  /\ pc = "loop" /\ pc' = "idle"
                  /\ last'.op = "rebuild"
                  /\ renderer.timeAccumulator < renderer.moveInterval
                  /\ renderer'.snake = renderer.snake
                  /\ renderer'.botSnake = renderer.botSnake
                  /\ renderer'.food = renderer.food]_vars

\* A frame that ran two ticks, neither of them resetting, and whose rebuild
\* then cleared the flag the ticks had set.
C21_Witness ==
    /\ FrameEnded
    /\ frame.ticks = 2
    /\ ~frame.reset
    /\ ~renderer.needsModelUpdate

\* ------------------------------------------------------------------ C22
\* No food cell of st is a cell of either snake.
FoodApart(st) ==
    SeqToSet(st.food) \cap (SeqToSet(st.snake) \cup SeqToSet(st.botSnake)) = {}

\* C22: in every state between two steps no food cell is a cell of the player
\* or of the bot; in particular, after a tick that moved, neither new head is
\* a food cell, whichever snake reached it.
C22_FoodOffSnakes ==
    Running =>
        /\ FoodApart(renderer)
        /\ TickMoved =>
              /\ PlayerNewHead(last.pre) \notin SeqToSet(renderer.food)
              /\ BotNewHead(last.pre) \notin SeqToSet(renderer.food)

\* A tick in which the bot's head reached a food cell while the player moved
\* without eating, and the spawner put new food on the board.
C22_Witness ==
    /\ TickMoved
    /\ BotEats(last.pre)
    /\ ~PlayerEats(last.pre)
    /\ renderer.botSnake[1] \in SeqToSet(last.pre.food)
    /\ renderer.food /= <<>>
    /\ FoodApart(renderer)

\* ------------------------------------------------------------------ C23
\* C23 as stated: queuedDirection is never the opposite of direction, and
\* after every tick direction is the value queuedDirection had when the tick
\* began.
C23_QueuedAlwaysCommitted ==
    /\ Running => ~isOpposite(renderer.queuedDirection, renderer.direction)
    /\ AfterTick => renderer.direction = last.pre.queuedDirection

\* C23, amended: queuedDirection is never the opposite of direction; every tick
\* promotes the value queuedDirection had when it began and moves the player
\* with it; after a tick that did not reset, direction is that value and
\* queuedDirection still holds it, and after a tick that reset both are Right.
C23_QueuedNeverOpposite ==
    /\ Running => ~isOpposite(renderer.queuedDirection, renderer.direction)
    /\ AfterTick => CommittedDirection(last.pre) = last.pre.queuedDirection
    /\ TickMoved =>
          /\ renderer.direction = last.pre.queuedDirection
          /\ renderer.queuedDirection = last.pre.queuedDirection
          /\ renderer.snake[1] =
                computeNextCell(last.pre, last.pre.snake[1], last.pre.queuedDirection)
    /\ TickEndedInReset =>
          renderer.direction = "Right" /\ renderer.queuedDirection = "Right"

\* A tick that did not reset and turned the player to a queued direction
\* other than the one it had, after the reverse had been asked for last.
C23_Witness ==
    /\ TickMoved
    /\ last.arg = "reversal"
    /\ last.pre.queuedDirection /= last.pre.direction
    /\ renderer.direction = last.pre.queuedDirection

\* ------------------------------------------------------------------ C24
\* C24: a tick that resets the game leaves the accumulator at 0, whatever it
\* held; no further tick runs in a frame after one of its ticks has reset, so
\* the intervals the frame still had to run are dropped; and when the tick
\* loop of a frame is left the accumulator is at least 0 and less than
\* moveInterval.
C24_ResetEndsFrameTicks ==
    /\ [](TickEndedInReset => renderer.timeAccumulator = 0 /\ frame.reset)
    /\ [](FrameEnded =>
            /\ 0 <= renderer.timeAccumulator
            /\ renderer.timeAccumulator < renderer.moveInterval
            /\ frame.reset => renderer.timeAccumulator = 0)
    /\ []((Running /\ pc = "loop" /\ frame.reset) =>
            renderer.timeAccumulator < renderer.moveInterval)
    /\ [][(frame.reset /\ pc = "loop") => last'.op = "rebuild"]_vars

\* A frame that had two intervals to run and a remainder, whose first tick
\* reset the game: the frame ended after that one tick with the accumulator 0.
C24_Witness ==
    /\ FrameEnded
    /\ frame.reset
    /\ frame.acc > 2 * renderer.moveInterval
    /\ frame.ticks = 1
    /\ renderer.timeAccumulator = 0

\* ------------------------------------------------------------------ C25
\* C25: in every reachable state both snakes are at least 3 cells long, a tick
\* that does not reset leaves no snake shorter than it was, and so no tick
\* starts with a snake of length 0 or 1 (the early returns of advanceSnake and
\* the length exemptions of the promotion, of queueDirection and of the bot's
\* filter are never taken) and no tick ends in the head comparison made after
\* both snakes have moved (line 487): two equal new heads are caught by the
\* player's collision test before it.
C25_MinimumLength ==
    /\ Running => Len(renderer.snake) >= 3 /\ Len(renderer.botSnake) >= 3
    /\ AfterTick =>
          /\ Len(last.pre.snake) >= 3 /\ Len(last.pre.botSnake) >= 3
          /\ last.outcome \in {"botCollision", "playerCollision", "moved"}
    /\ TickMoved =>
          /\ Len(renderer.snake) >= Len(last.pre.snake)
          /\ Len(renderer.botSnake) >= Len(last.pre.botSnake)
    /\ TickEndedInReset => Len(renderer.snake) = 3 /\ Len(renderer.botSnake) = 3

\* A tick started with a bot that had grown to four cells, in which both new
\* heads were the same cell: it ended in the player's collision test.
C25_Witness ==
    /\ AfterTick
    /\ Len(last.pre.botSnake) = 4
    /\ PlayerNewHead(last.pre) = BotNewHead(last.pre)
    /\ last.outcome = "playerCollision"
    /\ Len(renderer.botSnake) = 3

====
